---- MODULE Spec2Model ----
(***************************************************************************)
(* S3LocalStorage (src/index.ts, the class of lines 159-335): a key-value  *)
(* adaptor over one bucket of an S3-compatible object store.               *)
(*                                                                         *)
(* The bucket is remote state.  Every `await this.s3Client.send(...)` is   *)
(* one request answered atomically by the backend, so setItem, getItem     *)
(* and removeItem are one step each, while list() and clear() take one     *)
(* step per request (and list() one step per yielded key).                 *)
(***************************************************************************)
EXTENDS Integers, Sequences, FiniteSets, TLC

\* ------------------------------------------------------------------ bounds
MaxKey == 3          \* keys are 1..MaxKey, listed by the backend in this order
MaxWriteKey == 2     \* setItem is called on keys 1..MaxWriteKey
MaxEmptyPages == 1   \* empty-but-truncated pages a backend serves per drain
MaxRequests == 5     \* listing requests one drain may issue in the model

Keys == 1..MaxKey
WriteKeys == 1..MaxWriteKey

\* `undefined` as a continuation token (let continuationToken = undefined)
Undefined == -1

bucketName == "user-bucket"
OtherBucket == "other-bucket"

\* ------------------------------------------------------------------ values
\* A JS value handed to setItem as Body: a string (UTF-16 code units) or
\* a Buffer / Uint8Array (bytes).
NoValue == [type |-> "none", data |-> <<>>]
StrE9 == [type |-> "string", data |-> <<233>>]          \* "é"
StrLone == [type |-> "string", data |-> <<55296>>]      \* "\uD800"
BytesFF == [type |-> "bytes", data |-> <<255>>]         \* not valid UTF-8
Inputs == {StrE9, StrLone, BytesFF}

IsHighSurrogate(c) == c >= 55296 /\ c <= 56319
IsLowSurrogate(c) == c >= 56320 /\ c <= 57343
IsCont(b) == b >= 128 /\ b <= 191

\* The bytes the client sends for a string Body: its UTF-8 encoding, an
\* unpaired surrogate being encoded as U+FFFD (EF BF BD).
RECURSIVE Utf8Encode(_)
Utf8Encode(s) ==
  IF s = <<>> THEN <<>>
  ELSE LET c == Head(s) IN
    IF c < 128 THEN <<c>> \o Utf8Encode(Tail(s))
    ELSE IF c < 2048
      THEN <<192 + (c \div 64), 128 + (c % 64)>> \o Utf8Encode(Tail(s))
    ELSE IF IsHighSurrogate(c) /\ Len(s) >= 2 /\ IsLowSurrogate(s[2])
      THEN LET cp == 65536 + (c - 55296) * 1024 + (s[2] - 56320) IN
           <<240 + (cp \div 262144), 128 + ((cp \div 4096) % 64),
             128 + ((cp \div 64) % 64), 128 + (cp % 64)>>
             \o Utf8Encode(Tail(Tail(s)))
    ELSE IF IsHighSurrogate(c) \/ IsLowSurrogate(c)
      THEN <<239, 191, 189>> \o Utf8Encode(Tail(s))
    ELSE <<224 + (c \div 4096), 128 + ((c \div 64) % 64), 128 + (c % 64)>>
           \o Utf8Encode(Tail(s))

\* valueBuffer.toString("utf8"): every ill-formed maximal subpart becomes
\* U+FFFD; a four-byte sequence becomes a surrogate pair.
RECURSIVE Utf8Decode(_)
Utf8Decode(b) ==
  IF b = <<>> THEN <<>>
  ELSE LET n == Len(b)
           b1 == b[1]
           need == IF b1 < 128 THEN 1
                   ELSE IF b1 >= 194 /\ b1 <= 223 THEN 2
                   ELSE IF b1 >= 224 /\ b1 <= 239 THEN 3
                   ELSE IF b1 >= 240 /\ b1 <= 244 THEN 4
                   ELSE 0
           lo2 == IF b1 = 224 THEN 160 ELSE IF b1 = 240 THEN 144 ELSE 128
           hi2 == IF b1 = 237 THEN 159 ELSE IF b1 = 244 THEN 143 ELSE 191
           ok2 == need >= 2 /\ n >= 2 /\ b[2] >= lo2 /\ b[2] <= hi2
           ok3 == ok2 /\ need >= 3 /\ n >= 3 /\ IsCont(b[3])
           ok4 == ok3 /\ need = 4 /\ n >= 4 /\ IsCont(b[4])
       IN
    IF need = 1 THEN <<b1>> \o Utf8Decode(SubSeq(b, 2, n))
    ELSE IF need = 2 /\ ok2
      THEN <<(b1 - 192) * 64 + (b[2] - 128)>> \o Utf8Decode(SubSeq(b, 3, n))
    ELSE IF need = 3 /\ ok3
      THEN <<(b1 - 224) * 4096 + (b[2] - 128) * 64 + (b[3] - 128)>>
             \o Utf8Decode(SubSeq(b, 4, n))
    ELSE IF need = 4 /\ ok4
      THEN LET cp == (b1 - 240) * 262144 + (b[2] - 128) * 4096
                       + (b[3] - 128) * 64 + (b[4] - 128) - 65536 IN
           <<55296 + (cp \div 1024), 56320 + (cp % 1024)>>
             \o Utf8Decode(SubSeq(b, 5, n))
    ELSE LET used == IF ok3 THEN 3 ELSE IF ok2 /\ need >= 3 THEN 2 ELSE 1 IN
           <<65533>> \o Utf8Decode(SubSeq(b, used + 1, n))

\* valueBuffer.toString("latin1"): one code unit per byte.
Latin1Decode(b) == b

Encodings == {"utf8", "latin1", "null"}

\* The object body the backend stores for a put of Body `value`.
BodyBytes(value) ==
  IF value.type = "string" THEN Utf8Encode(value.data) ELSE value.data

\* Mutant of DecodeValue: every text encoding decoded as latin1.
DecodeValueAsLatin1(body, encoding) ==
  IF encoding = "null" THEN [type |-> "bytes", data |-> body]
  ELSE [type |-> "string", data |-> Latin1Decode(body)]

\* getItem lines 203-208: the Buffer itself for encoding null, else
\* valueBuffer.toString(encoding).
DecodeValue(body, encoding) ==
  IF encoding = "null" THEN [type |-> "bytes", data |-> body]
  ELSE IF encoding = "utf8" THEN [type |-> "string", data |-> Utf8Decode(body)]
  ELSE [type |-> "string", data |-> Latin1Decode(body)]

\* ------------------------------------------------------------------ errors
\* What `await this.s3Client.send(command)` can throw.
NoError == [type |-> "none", hasCode |-> FALSE, Code |-> ""]
NoSuchKey == [type |-> "object", hasCode |-> TRUE, Code |-> "NoSuchKey"]
AccessDenied == [type |-> "object", hasCode |-> TRUE, Code |-> "AccessDenied"]
NetworkError == [type |-> "object", hasCode |-> FALSE, Code |-> ""]
OtherErrors == {AccessDenied, NetworkError}

\* Mutant of isNoSuchKeyError: any error carrying a Code.
isNoSuchKeyErrorAnyCode(error) ==
  /\ error.type = "object"
  /\ error.hasCode

\* Mutant of isNoSuchKeyError: the wrong code compared.
isNoSuchKeyErrorWrongCode(error) ==
  /\ error.type = "object"
  /\ error.hasCode
  /\ error.Code = "NotFound"

isNoSuchKeyError(error) ==
  /\ error.type = "object"
  /\ error.hasCode
  /\ error.Code = "NoSuchKey"

\* ------------------------------------------------------------------ results
Ok == [kind |-> "ok", value |-> NoValue, error |-> NoError]
ReturnUndefined == [kind |-> "undefined", value |-> NoValue, error |-> NoError]
Return(v) == [kind |-> "value", value |-> v, error |-> NoError]
Throw(e) == [kind |-> "error", value |-> NoValue, error |-> e]

\* ------------------------------------------------------------------ state
VARIABLES
  bucket,   \* the remote bucket: key -> stored object, or None
  last,     \* the latest completed setItem / getItem / removeItem call
  drain     \* the running (or finished) list() / clear() invocation

vars == <<bucket, last, drain>>

None == [body |-> <<>>, orig |-> NoValue, present |-> FALSE]
Stored(value, orig) == [body |-> BodyBytes(value), orig |-> orig, present |-> TRUE]

KeysOf(b) == {k \in Keys : b[k].present}

MarkDirty(d, changed) ==
  IF changed /\ d.pc \in {"request", "yield", "delete"}
  THEN [d EXCEPT !.dirty = TRUE] ELSE d

\* ------------------------------------------------------------------ setItem
\* Object spread { ...a, ...b }: the fields of b win.
Spread(a, b) ==
  [f \in (DOMAIN a) \cup (DOMAIN b) |-> IF f \in DOMAIN b THEN b[f] ELSE a[f]]

NoOpts == [f \in {} |-> ""]
OptsSet ==
  { NoOpts,
    [ContentType |-> "application/json"],
    [Bucket |-> OtherBucket],
    [Key |-> 1],
    [Body |-> StrE9] }

\* new PutObjectCommand({ Bucket, Key, Body, ...(string && ContentType), ...opts })
PutObjectCommandInput(key, value, opts) ==
  Spread(
    Spread([Bucket |-> bucketName, Key |-> key, Body |-> value],
           IF value.type = "string" THEN [ContentType |-> "text/plain"] ELSE NoOpts),
    opts)

NoCommand == [Bucket |-> "", Key |-> 0, Body |-> NoValue, ContentType |-> ""]
PutObjectCommand(key, value, opts) ==
  LET input == PutObjectCommandInput(key, value, opts) IN
  [Bucket |-> input.Bucket, Key |-> input.Key, Body |-> input.Body,
   ContentType |-> IF "ContentType" \in DOMAIN input
                   THEN input.ContentType ELSE "absent"]

\* The backend's effect of an acknowledged put on this store's bucket.
BackendPut(b, command, orig) ==
  IF command.Bucket = bucketName
  THEN [b EXCEPT ![command.Key] = Stored(command.Body, orig)]
  ELSE b

SetItem ==
  \E key \in WriteKeys, value \in Inputs, opts \in OptsSet,
     error \in {NoError, NetworkError} :
    LET command == PutObjectCommand(key, value, opts)
        orig == IF command.Key = key /\ command.Body = value
                THEN value ELSE NoValue
        after == IF error = NoError THEN BackendPut(bucket, command, orig)
                 ELSE bucket
    IN /\ bucket' = after
       /\ last' = [op |-> "setItem", key |-> key, value |-> value,
                   opts |-> opts, encoding |-> "none", command |-> command,
                   present |-> FALSE, repeat |-> FALSE,
                   error |-> error,
                   result |-> IF error = NoError THEN Ok ELSE Throw(error)]
       /\ drain' = MarkDirty(drain, after # bucket)

\* ------------------------------------------------------------------ getItem
\* The backend's answer to GetObject: the failure it injects, NoSuchKey for
\* an absent key, else the object.
BackendGet(b, key, fault) ==
  IF fault # NoError THEN [error |-> fault, body |-> <<>>]
  ELSE IF ~b[key].present THEN [error |-> NoSuchKey, body |-> <<>>]
  ELSE [error |-> NoError, body |-> b[key].body]

\* try { ... return value } catch (error) { if (isNoSuchKeyError(error)) return; throw error }
getItem(response, encoding) ==
  IF response.error = NoError THEN Return(DecodeValue(response.body, encoding))
  ELSE IF isNoSuchKeyError(response.error) THEN ReturnUndefined
  ELSE Throw(response.error)

GetItem ==
  \E key \in Keys, encoding \in Encodings, fault \in {NoError} \cup OtherErrors :
    LET response == BackendGet(bucket, key, fault) IN
    /\ last' = [op |-> "getItem", key |-> key, value |-> NoValue,
                opts |-> NoOpts, encoding |-> encoding, command |-> NoCommand,
                present |-> bucket[key].present, repeat |-> FALSE,
                error |-> response.error,
                result |-> getItem(response, encoding)]
    /\ UNCHANGED <<bucket, drain>>

\* ------------------------------------------------------------------ removeItem
\* The backend's answers to DeleteObject: the injected failure; for an absent
\* key an acknowledgement or (on stores that report it) NoSuchKey.
BackendDeleteErrors(b, key, fault) ==
  IF fault # NoError THEN {fault}
  ELSE IF b[key].present THEN {NoError}
  ELSE {NoError, NoSuchKey}

\* Mutant of removeItem: every error rethrown.
removeItemRethrows(error) ==
  IF error = NoError THEN Ok ELSE Throw(error)

\* try { await send(DeleteObjectCommand) } catch (error) { if (isNoSuchKeyError(error)) return; throw error }
removeItem(error) ==
  IF error = NoError THEN Ok
  ELSE IF isNoSuchKeyError(error) THEN Ok
  ELSE Throw(error)

\* One removeItem(key) call whose DeleteObject request the backend answers
\* with `error` (NoError: acknowledged).
RemoveItemCall(key, error) ==
  /\ bucket' = IF error = NoError THEN [bucket EXCEPT ![key] = None] ELSE bucket
  /\ last' = [op |-> "removeItem", key |-> key, value |-> NoValue,
              opts |-> NoOpts, encoding |-> "none", command |-> NoCommand,
              present |-> bucket[key].present,
              repeat |-> (last.op = "removeItem" /\ last.key = key
                            /\ last.result.kind = "ok"),
              error |-> error,
              result |-> removeItem(error)]

RemoveItem ==
  \E key \in Keys, fault \in {NoError} \cup OtherErrors :
    \E error \in BackendDeleteErrors(bucket, key, fault) :
      /\ RemoveItemCall(key, error)
      /\ drain' = MarkDirty(drain, bucket[key].present /\ error = NoError)

\* ------------------------------------------------------------------ drain state
NoListResult ==
  [Contents |-> <<>>, hasContents |-> FALSE, IsTruncated |-> "undefined",
   NextContinuationToken |-> Undefined]

\* One list() or clear() invocation.  isTruncated, continuationToken and
\* listResult are the locals of the loop; yielded is what list() has handed
\* to its consumer; log, startKeys, emptyPages, dirty, raced, besideThrew and
\* prev record the invocation's requests and what ran beside it.
IdleDrain ==
  [mode |-> "idle", pc |-> "idle", isTruncated |-> TRUE,
   continuationToken |-> Undefined, listResult |-> NoListResult,
   index |-> 0, yielded |-> <<>>, log |-> <<>>, emptyPages |-> 0,
   startKeys |-> {}, dirty |-> FALSE, raced |-> FALSE, besideThrew |-> FALSE,
   prev |-> "none", error |-> NoError]

NoCall ==
  [op |-> "none", key |-> 0, value |-> NoValue, opts |-> NoOpts,
   encoding |-> "none", command |-> NoCommand, present |-> FALSE,
   repeat |-> FALSE, error |-> NoError, result |-> Ok]

\* ------------------------------------------------------------------ backend listing
\* The keys of b after `start`, in the backend's (ascending) listing order.
RECURSIVE KeysAfter(_, _)
KeysAfter(b, start) ==
  LET rest == {k \in KeysOf(b) : k > start} IN
  IF rest = {} THEN <<>>
  ELSE LET k == CHOOSE x \in rest : \A y \in rest : x <= y IN
       <<k>> \o KeysAfter(b, k)

\* How the response may spell "no entries" and "not truncated".
ContentsForms(n) == IF n = 0 THEN {TRUE, FALSE} ELSE {TRUE}
TruncatedForms(truncated) == IF truncated THEN {"true"} ELSE {"false", "undefined"}

\* The answers of a conforming backend to ListObjectsV2 with `token`: any
\* page of the next n keys, truncated iff keys remain after it, the cursor
\* naming the last key served; and, while `empties` allows, an empty page
\* that is still truncated.
ConformingPages(b, token, empties) ==
  LET start == IF token = Undefined THEN 0 ELSE token
      rest == KeysAfter(b, start)
      sizes == {n \in 0..Len(rest) :
                  n > 0 \/ Len(rest) = 0 \/ empties < MaxEmptyPages}
  IN UNION { LET truncated == n < Len(rest)
                 page == SubSeq(rest, 1, n)
             IN { [Contents |-> page, hasContents |-> h, IsTruncated |-> t,
                   NextContinuationToken |->
                     IF ~truncated THEN Undefined
                     ELSE IF n > 0 THEN page[n] ELSE start] :
                  h \in ContentsForms(n), t \in TruncatedForms(truncated) }
           : n \in sizes }

\* A backend breaking the listing contract: a truncated page without cursor.
ViolatingPages(b, token) ==
  LET start == IF token = Undefined THEN 0 ELSE token
      rest == KeysAfter(b, start)
  IN { [Contents |-> SubSeq(rest, 1, n), hasContents |-> TRUE,
        IsTruncated |-> "true", NextContinuationToken |-> Undefined] :
       n \in 0..Len(rest) }

IsViolation(entry) ==
  /\ entry.kind = "list"
  /\ entry.error = NoError
  /\ entry.truncated
  /\ entry.next = Undefined

ListEntry(token, r, error) ==
  [kind |-> "list", token |-> token, keys |-> r.Contents,
   truncated |-> (r.IsTruncated = "true"), next |-> r.NextContinuationToken,
   error |-> error]
DeleteEntry(keys, error) ==
  [kind |-> "delete", token |-> Undefined, keys |-> keys,
   truncated |-> FALSE, next |-> Undefined, error |-> error]

ListRequests(log) == {i \in 1..Len(log) : log[i].kind = "list"}
DeleteRequests(log) == {i \in 1..Len(log) : log[i].kind = "delete"}
Violations(log) == {i \in 1..Len(log) : IsViolation(log[i])}

\* The backend's effect of an acknowledged DeleteObjects: the named keys are
\* gone, whether or not they still existed.
BackendDeleteObjects(b, keys) ==
  [k \in Keys |-> IF \E i \in 1..Len(keys) : keys[i] = k THEN None ELSE b[k]]

\* ------------------------------------------------------------------ list() / clear()
\* let isTruncated = true; let continuationToken = undefined
StartDrain(mode, d, b) ==
  [IdleDrain EXCEPT !.mode = mode, !.pc = "request", !.startKeys = KeysOf(b),
     !.prev = IF d.mode = "clear" /\ d.pc = "done" THEN "cleared"
              ELSE IF d.mode = "clear" /\ d.pc = "failed" THEN "clearFailed"
              ELSE "other"]

\* if (listResult.Contents && listResult.Contents.length > 0)
HasContents(listResult) ==
  listResult.hasContents /\ Len(listResult.Contents) > 0

\* Mutant of NextPage: the cursor of the response is not carried over.
NextPageDropsToken(d) ==
  LET truncated == (d.listResult.IsTruncated = "true") IN
  [d EXCEPT !.isTruncated = truncated,
            !.continuationToken = Undefined,
            !.pc = IF truncated THEN "request" ELSE "done",
            !.listResult = NoListResult,
            !.index = 0]

\* Mutant of NextPage: the loop ends after the first page.
NextPageStops(d) ==
  [d EXCEPT !.isTruncated = FALSE,
            !.continuationToken = d.listResult.NextContinuationToken,
            !.pc = "done",
            !.listResult = NoListResult,
            !.index = 0]

\* isTruncated = listResult.IsTruncated ?? false;
\* continuationToken = listResult.NextContinuationToken; while (isTruncated)
NextPage(d) ==
  LET truncated == (d.listResult.IsTruncated = "true") IN
  [d EXCEPT !.isTruncated = truncated,
            !.continuationToken = d.listResult.NextContinuationToken,
            !.pc = IF truncated THEN "request" ELSE "done",
            !.listResult = NoListResult,
            !.index = 0]

\* Mutant of Rejected: the error is swallowed and the request sent again.
RejectedRetries(d, error) == d

\* A rejected `await this.s3Client.send(...)` leaves the loop and the method.
Rejected(d, error) == [d EXCEPT !.pc = "failed", !.error = error]

\* The body of the loop from the listing response to the next await / yield.
OnListResult(d, listResult) ==
  LET got == [d EXCEPT !.listResult = listResult,
                       !.emptyPages = IF listResult.Contents = <<>>
                                        /\ listResult.IsTruncated = "true"
                                      THEN d.emptyPages + 1 ELSE d.emptyPages]
  IN IF HasContents(listResult)
     THEN [got EXCEPT !.pc = IF d.mode = "list" THEN "yield" ELSE "delete",
                      !.index = 1]
     ELSE NextPage(got)

StartList ==
  /\ drain.pc \in {"idle", "done", "failed"}
  /\ drain' = StartDrain("list", drain, bucket)
  /\ UNCHANGED <<bucket, last>>

StartClear ==
  /\ drain.pc \in {"idle", "done", "failed"}
  /\ drain' = StartDrain("clear", drain, bucket)
  /\ UNCHANGED <<bucket, last>>

\* await this.s3Client.send(new ListObjectsV2Command({ Bucket, ContinuationToken }))
ListPage ==
  /\ drain.pc = "request"
  /\ Cardinality(ListRequests(drain.log)) < MaxRequests
  /\ \E listResult \in ConformingPages(bucket, drain.continuationToken,
                                       drain.emptyPages) :
       drain' = OnListResult(
                  [drain EXCEPT !.log = Append(@,
                     ListEntry(drain.continuationToken, listResult, NoError))],
                  listResult)
  /\ UNCHANGED <<bucket, last>>

ListPageViolation ==
  /\ drain.pc = "request"
  /\ Cardinality(ListRequests(drain.log)) < MaxRequests
  /\ Violations(drain.log) = {}
  /\ \E listResult \in ViolatingPages(bucket, drain.continuationToken) :
       drain' = OnListResult(
                  [drain EXCEPT !.log = Append(@,
                     ListEntry(drain.continuationToken, listResult, NoError))],
                  listResult)
  /\ UNCHANGED <<bucket, last>>

ListPageFails ==
  /\ drain.pc = "request"
  /\ Cardinality(ListRequests(drain.log)) < MaxRequests
  /\ \E error \in OtherErrors :
       drain' = Rejected(
                  [drain EXCEPT !.log = Append(@,
                     ListEntry(drain.continuationToken, NoListResult, error))],
                  error)
  /\ UNCHANGED <<bucket, last>>

\* for (const object of listResult.Contents) { if (object.Key) yield object.Key }
YieldKey ==
  /\ drain.mode = "list"
  /\ drain.pc = "yield"
  /\ LET d == [drain EXCEPT
                 !.yielded = Append(@, drain.listResult.Contents[drain.index])]
     IN drain' = IF drain.index < Len(drain.listResult.Contents)
                 THEN [d EXCEPT !.index = drain.index + 1]
                 ELSE NextPage(d)
  /\ UNCHANGED <<bucket, last>>

\* Mutant of DeleteObjectsKeys: the batch misses the page's last key.
DeleteObjectsKeysButLast(listResult) ==
  SubSeq(listResult.Contents, 1, Len(listResult.Contents) - 1)

\* await this.s3Client.send(new DeleteObjectsCommand({ Bucket, Delete: { Objects } }))
DeleteObjectsKeys(listResult) == listResult.Contents

DeletePage ==
  /\ drain.mode = "clear"
  /\ drain.pc = "delete"
  /\ LET keys == DeleteObjectsKeys(drain.listResult) IN
     /\ bucket' = BackendDeleteObjects(bucket, keys)
     /\ drain' = NextPage([drain EXCEPT !.log = Append(@, DeleteEntry(keys, NoError))])
  /\ UNCHANGED last

DeletePageFails ==
  /\ drain.mode = "clear"
  /\ drain.pc = "delete"
  /\ \E error \in OtherErrors :
       drain' = Rejected(
                  [drain EXCEPT !.log = Append(@,
                     DeleteEntry(DeleteObjectsKeys(drain.listResult), error))],
                  error)
  /\ UNCHANGED <<bucket, last>>

\* removeItem(key) called by another task while list() / clear() is
\* suspended at an await; the backend answers its DeleteObject normally.
RemoveItemBeside ==
  /\ drain.pc \in {"request", "yield", "delete"}
  /\ \E key \in Keys :
       \E error \in BackendDeleteErrors(bucket, key, NoError) :
         /\ bucket' = IF error = NoError THEN [bucket EXCEPT ![key] = None]
                      ELSE bucket
         /\ drain' = [drain EXCEPT
              !.dirty = @ \/ bucket[key].present,
              !.raced = @ \/ (/\ drain.pc = "delete"
                              /\ bucket[key].present
                              /\ \E i \in 1..Len(drain.listResult.Contents) :
                                   drain.listResult.Contents[i] = key),
              !.besideThrew = @ \/ removeItem(error).kind = "error"]
  /\ UNCHANGED last

\* ------------------------------------------------------------------ specifications
\* After construction the remote bucket holds whatever was stored before.
InitialObjects == {None, Stored(BytesFF, NoValue)}

Init ==
  /\ bucket \in [Keys -> InitialObjects]
  /\ last = NoCall
  /\ drain = IdleDrain

NextKV == SetItem \/ GetItem \/ RemoveItem

SpecKV == Init /\ [][NextKV]_vars

NextDrain ==
  \/ StartList \/ StartClear
  \/ ListPage \/ ListPageViolation \/ ListPageFails
  \/ YieldKey
  \/ DeletePage \/ DeletePageFails
  \/ RemoveItemBeside

SpecDrain == Init /\ [][NextDrain]_vars

\* ------------------------------------------------------------------ helpers of the properties
\* A string without unpaired surrogates.
WellFormed(s) ==
  \A i \in 1..Len(s) :
    /\ IsHighSurrogate(s[i]) => (i < Len(s) /\ IsLowSurrogate(s[i + 1]))
    /\ IsLowSurrogate(s[i]) => (i > 1 /\ IsHighSurrogate(s[i - 1]))

\* The keys of S in ascending order.
RECURSIVE Ascending(_)
Ascending(S) ==
  IF S = {} THEN <<>>
  ELSE LET k == CHOOSE x \in S : \A y \in S : x <= y IN
       <<k>> \o Ascending(S \ {k})

\* The keys of the pages the log's listing requests returned, in order.
RECURSIVE PagesOf(_)
PagesOf(log) ==
  IF log = <<>> THEN <<>>
  ELSE (IF Head(log).kind = "list" THEN Head(log).keys ELSE <<>>)
         \o PagesOf(Tail(log))

\* The keys named by the log's acknowledged batch-delete requests.
DeletedBy(log) ==
  {k \in Keys : \E i \in DeleteRequests(log) :
     /\ log[i].error = NoError
     /\ \E j \in 1..Len(log[i].keys) : log[i].keys[j] = k}

\* getItem answered a key whose object a plain setItem(key, v) wrote last.
ReadBack ==
  /\ last.op = "getItem"
  /\ last.error = NoError
  /\ bucket[last.key].present
  /\ bucket[last.key].orig # NoValue

\* ------------------------------------------------------------------ properties
\* C1 as stated: setItem(k, v) followed by getItem(k) (default encoding),
\* with no mutation of k in between, returns exactly v, for every value v.
C1_RoundTripEveryValue ==
  (ReadBack /\ last.encoding = "utf8")
    => last.result = Return(bucket[last.key].orig)

\* C1 amended: the round trip returns exactly v when v is a well-formed
\* string read with the default encoding, and when v is a byte sequence
\* read with encoding null.
C1_RoundTrip ==
  ReadBack =>
    LET v == bucket[last.key].orig IN
    /\ (v.type = "string" /\ WellFormed(v.data) /\ last.encoding = "utf8")
         => last.result = Return(v)
    /\ (v.type = "bytes" /\ last.encoding = "null")
         => last.result = Return(v)

C1_Witness ==
  /\ ReadBack
  /\ last.encoding = "utf8"
  /\ bucket[last.key].orig = StrE9
  /\ last.result = Return(StrE9)

\* C2: getItem on an absent key returns undefined and raises nothing; every
\* other backend error is thrown unchanged; undefined is returned for
\* nothing but an absent key.
C2_MissingKeyUndefined ==
  last.op = "getItem" =>
    /\ (~last.present /\ last.error \notin OtherErrors)
         => last.result = ReturnUndefined
    /\ last.error \in OtherErrors => last.result = Throw(last.error)
    /\ last.result.kind = "undefined"
         => (~last.present /\ last.error = NoSuchKey)
    /\ (last.present /\ last.error = NoError) => last.result.kind = "value"

C2_Witness ==
  /\ last.op = "getItem"
  /\ ~last.present
  /\ last.error = NoSuchKey
  /\ last.result = ReturnUndefined

\* C3: a removeItem(k) the backend does not fail succeeds, leaves k absent
\* and every other key as it was; repeated right after a successful
\* removeItem(k) it succeeds again and leaves the bucket unchanged.
C3_RemoveIdempotent ==
  [][ (last'.op = "removeItem" /\ last'.error \notin OtherErrors) =>
        /\ last'.result = Ok
        /\ ~bucket'[last'.key].present
        /\ \A k \in Keys \ {last'.key} : bucket'[k] = bucket[k]
        /\ last'.repeat => bucket' = bucket ]_vars

C3_Witness ==
  /\ last.op = "removeItem"
  /\ last.repeat
  /\ last.error = NoSuchKey
  /\ last.result = Ok

\* C8 as stated: the put request of setItem(key, value, options) carries the
\* store's bucket, the key argument and the value argument whatever the
\* options hold, and content-type text/plain exactly for a string value
\* without a content-type option.
C8_PutKeepsIdentity ==
  last.op = "setItem" =>
    /\ last.command.Bucket = bucketName
    /\ last.command.Key = last.key
    /\ last.command.Body = last.value
    /\ (last.command.ContentType = "text/plain")
         <=> (last.value.type = "string"
                /\ "ContentType" \notin DOMAIN last.opts)

\* C4: a list() consumed to its end beside which nothing was removed, on a
\* backend that keeps the cursor contract, has yielded the keys the bucket
\* held, each once and in the backend's order, within one request per key
\* and empty page plus one; and list() always yields the pages as returned.
C4_ListYieldsAll ==
  drain.mode = "list" =>
    /\ drain.pc \in {"request", "done"} => drain.yielded = PagesOf(drain.log)
    /\ (drain.pc = "done" /\ ~drain.dirty /\ Violations(drain.log) = {}) =>
         /\ drain.yielded = Ascending(drain.startKeys)
         /\ Cardinality(ListRequests(drain.log))
              <= Cardinality(drain.startKeys) + drain.emptyPages + 1

C4_Witness ==
  /\ drain.mode = "list"
  /\ drain.pc = "done"
  /\ ~drain.dirty
  /\ Violations(drain.log) = {}
  /\ drain.startKeys = Keys
  /\ drain.emptyPages >= 1
  /\ Cardinality(ListRequests(drain.log)) >= 3
  /\ drain.yielded = Ascending(Keys)

\* C5: when clear() has returned, no writer running beside it, the bucket
\* is empty, also when it resumes an earlier clear() that failed; a list()
\* started after it yields no key.
C5_ClearEmpties ==
  /\ (drain.mode = "clear" /\ drain.pc = "done") => KeysOf(bucket) = {}
  /\ (drain.mode = "list" /\ drain.prev = "cleared") => drain.yielded = <<>>

C5_Witness ==
  /\ drain.mode = "clear"
  /\ drain.pc = "done"
  /\ drain.prev = "clearFailed"
  /\ drain.startKeys # {}
  /\ drain.startKeys # Keys
  /\ DeleteRequests(drain.log) # {}

\* C6: clear() sends one batch-delete per non-empty page, right after the
\* listing that returned the page and before any further listing, naming
\* exactly the page's keys; an empty page is followed by no batch-delete.
C6_OneDeletePerPage ==
  drain.mode = "clear" =>
    LET log == drain.log IN
    /\ \A i \in DeleteRequests(log) :
         /\ i > 1
         /\ log[i - 1].kind = "list"
         /\ log[i - 1].error = NoError
         /\ log[i].keys = log[i - 1].keys
         /\ log[i].keys # <<>>
    /\ \A i \in ListRequests(log) :
         (log[i].error = NoError /\ log[i].keys # <<>>) =>
           IF i < Len(log) THEN log[i + 1].kind = "delete"
           ELSE drain.pc = "delete"
    /\ drain.pc = "done" =>
         Cardinality(DeleteRequests(log))
           = Cardinality({i \in ListRequests(log) : log[i].keys # <<>>})

C6_Witness ==
  /\ drain.mode = "clear"
  /\ drain.pc = "done"
  /\ Cardinality(DeleteRequests(drain.log)) = 3
  /\ Cardinality(ListRequests(drain.log)) = 4
  /\ \E i \in ListRequests(drain.log) : drain.log[i].keys = <<>>

\* C7 as stated: after a listing response that is truncated and carries no
\* cursor the drain sends no further listing request and does not return
\* normally.
C7_ViolationStopsDrain ==
  \A i \in Violations(drain.log) :
    /\ \A j \in ListRequests(drain.log) : j <= i
    /\ drain.pc # "done"

\* C9: a failed request is the invocation's last request, the invocation
\* ends throwing that very error, nothing fails but by a failed request,
\* and a failed clear() beside which nothing was removed leaves exactly the
\* keys of the pages it had deleted gone.
C9_FailureAborts ==
  LET log == drain.log IN
  /\ \A i \in 1..Len(log) :
       log[i].error # NoError =>
         (i = Len(log) /\ drain.pc = "failed" /\ drain.error = log[i].error)
  /\ drain.pc = "failed" => (Len(log) > 0 /\ log[Len(log)].error \in OtherErrors)
  /\ (drain.mode = "clear" /\ drain.pc = "failed" /\ ~drain.dirty) =>
       KeysOf(bucket) = drain.startKeys \ DeletedBy(log)

C9_Witness ==
  /\ drain.mode = "clear"
  /\ drain.pc = "failed"
  /\ ~drain.dirty
  /\ DeletedBy(drain.log) # {}
  /\ KeysOf(bucket) # {}
  /\ drain.log[Len(drain.log)].kind = "delete"

\* C10: removeItem calls running beside list() / clear() never throw, a
\* drain fails only by a failed request of its own, and a clear() that
\* returns has left none of the keys it started with.
C10_RemoveBesideClear ==
  /\ ~drain.besideThrew
  /\ drain.pc = "failed" => drain.log[Len(drain.log)].error \in OtherErrors
  /\ (drain.mode = "clear" /\ drain.pc = "done") =>
       \A k \in drain.startKeys : ~bucket[k].present

C10_Witness ==
  /\ drain.mode = "clear"
  /\ drain.pc = "done"
  /\ drain.raced
  /\ Cardinality(DeleteRequests(drain.log)) >= 2

====
